---------------------------- MODULE Spec2Model ----------------------------
(***************************************************************************)
(* Laptop price predictor: the request-scoped prediction pipeline          *)
(* (validation, cache lookup, inference, price correction, caching,        *)
(* background persistence), the in-memory TTL cache, the model loader and  *)
(* the MongoDB repository.                                                 *)
(*                                                                         *)
(* Floats are fixed-point integers: prices and raw model outputs are in    *)
(* thousandths (Unit), weight and ppi in hundredths.  Time is in seconds.  *)
(***************************************************************************)
EXTENDS Integers, Sequences, FiniteSets, TLC

VARIABLES
    now,        \* time.time(), seconds
    cache,      \* SimpleCache._cache: dict key -> <<value, timestamp>>
    files,      \* the model and data files on disk, what the model file holds, and
                \* how many times load_model has submitted them for reading
    loader,     \* LaptopPriceModel: is_loaded, model, df
    app,        \* lifespan of the FastAPI application
    req,        \* the predict_price calls, one record per call
    queue,      \* work queue of PredictionService._executor
    worker,     \* the executor's single worker thread
    tasks,      \* background tasks created by asyncio.create_task, in creation order
    db,         \* the MongoDB collection, in insertion order
    nextId,     \* number of uuid4 values drawn so far
    written,    \* history: per key, the last set since the last clear
    lastOp,     \* history: the last direct cache operation and what it returned
    norm,       \* the price corrections applied to one raw model output
    admin,      \* the last request to the admin router and its response
    getting     \* the SimpleCache.get call in progress, statement by statement

vars == <<now, cache, files, loader, app, req, queue, worker, tasks, db, nextId, written, lastOp, norm, admin, getting>>

---------------------------------------------------------------------------
(* Bounds of the model *)

MaxReq == 2          \* predict_price calls in one behaviour
MaxTicks == 1        \* the clock runs to MaxTicks * TTL
MaxDeviations == 1   \* fields of a request body that differ from the documented example
MaxRawMag == 20      \* raw model outputs range over -MaxRawMag..MaxRawMag and the thresholds

None == [is_none |-> TRUE]

---------------------------------------------------------------------------
(* Feature schema: user_input_schema_model.py *)

Company == {"Apple", "HP", "Acer", "Asus", "Dell", "Lenovo", "MSI", "Toshiba",
            "Samsung", "Other"}
TypeName == {"Ultrabook", "Notebook", "Netbook", "Gaming", "2 in 1 Convertible",
             "Workstation"}
CpuBrand == {"Intel Core i3", "Intel Core i5", "Intel Core i7", "AMD Processor",
             "Other Intel Processor"}
GpuBrand == {"Intel", "AMD", "Nvidia"}
OS == {"Mac", "Windows", "Others/No OS/Linux"}

Fields == {"company", "type_name", "ram", "weight", "touchscreen", "ips", "ppi",
           "cpu_brand", "hdd", "ssd", "gpu_brand", "os"}

\* Field(...) marks a field required; Field(0, ...) gives it the default 0.
FieldDefaults == [touchscreen |-> 0, ips |-> 0, hdd |-> 0, ssd |-> 0]

valid_ram == {2, 4, 6, 8, 12, 16, 24, 32, 64}

validate_ram_NoEnum(v) == TRUE

\* @validator('ram'): TRUE when the value passes
validate_ram(v) == v \in valid_ram

FieldOk_StrictBounds(f, v) ==
    CASE f = "company" -> v \in Company
      [] f = "type_name" -> v \in TypeName
      [] f = "ram" -> v >= 2 /\ v <= 64 /\ validate_ram(v)
      [] f = "weight" -> v > 50 /\ v < 500
      [] f = "touchscreen" -> v >= 0 /\ v <= 1
      [] f = "ips" -> v >= 0 /\ v <= 1
      [] f = "ppi" -> v > 9000 /\ v < 40000
      [] f = "cpu_brand" -> v \in CpuBrand
      [] f = "hdd" -> v > 0 /\ v < 2000
      [] f = "ssd" -> v > 0 /\ v < 2048
      [] f = "gpu_brand" -> v \in GpuBrand
      [] f = "os" -> v \in OS

\* The constraint of one field of LaptopFeatures (weight, ppi in hundredths)
FieldOk(f, v) ==
    CASE f = "company" -> v \in Company
      [] f = "type_name" -> v \in TypeName
      [] f = "ram" -> v >= 2 /\ v <= 64 /\ validate_ram(v)
      [] f = "weight" -> v >= 50 /\ v <= 500
      [] f = "touchscreen" -> v >= 0 /\ v <= 1
      [] f = "ips" -> v >= 0 /\ v <= 1
      [] f = "ppi" -> v >= 9000 /\ v <= 40000
      [] f = "cpu_brand" -> v \in CpuBrand
      [] f = "hdd" -> v >= 0 /\ v <= 2000
      [] f = "ssd" -> v >= 0 /\ v <= 2048
      [] f = "gpu_brand" -> v \in GpuBrand
      [] f = "os" -> v \in OS

Validate_NoDefaults(body) ==
    LET filled == [f \in Fields |-> IF f \in DOMAIN body THEN body[f] ELSE 0]
        errors == {f \in Fields : \/ f \notin DOMAIN body
                                  \/ f \in DOMAIN body /\ ~FieldOk(f, body[f])}
    IN  [errors |-> errors, features |-> IF errors = {} THEN filled ELSE None]

\* LaptopFeatures(**body): a body is a JSON object, a function from the fields it
\* gives to their values.  errors holds the field of every error pydantic reports.
Validate(body) ==
    LET filled == [f \in Fields |->
                      IF f \in DOMAIN body THEN body[f] ELSE
                      IF f \in DOMAIN FieldDefaults THEN FieldDefaults[f] ELSE 0]
        errors == {f \in Fields :
                      \/ f \notin DOMAIN body /\ f \notin DOMAIN FieldDefaults
                      \/ f \in DOMAIN body /\ ~FieldOk(f, body[f])}
    IN  [errors |-> errors, features |-> IF errors = {} THEN filled ELSE None]

\* Config.json_schema_extra["example"]
Example == [company |-> "Dell", type_name |-> "Notebook", ram |-> 8, weight |-> 200,
            touchscreen |-> 0, ips |-> 1, ppi |-> 14121, cpu_brand |-> "Intel Core i5",
            hdd |-> 0, ssd |-> 256, gpu_brand |-> "Intel", os |-> "Windows"]

\* Values a request body gives to a field: members of the domain, values on and
\* next to each bound, and values outside the domain
TestValues(f) ==
    CASE f = "company" -> {"Dell", "Apple", "Sony"}
      [] f = "type_name" -> {"Notebook", "Gaming", "Tablet"}
      [] f = "ram" -> (0..66) \cup {128}
      [] f = "weight" -> {49, 50, 200, 500, 501}
      [] f = "touchscreen" -> {-1, 0, 1, 2}
      [] f = "ips" -> {-1, 0, 1, 2}
      [] f = "ppi" -> {8999, 9000, 14121, 40000, 40001}
      [] f = "cpu_brand" -> {"Intel Core i5", "AMD Processor", "Apple M1"}
      [] f = "hdd" -> {-1, 0, 1000, 2000, 2001}
      [] f = "ssd" -> {-1, 0, 256, 2048, 2049}
      [] f = "gpu_brand" -> {"Intel", "Nvidia", "Apple"}
      [] f = "os" -> {"Windows", "Mac", "Android"}

Deviate(b) ==
    {b} \cup UNION {{[g \in DOMAIN b |-> IF g = f THEN v ELSE b[g]] : v \in TestValues(f)}
                    : f \in DOMAIN b}
        \cup {[g \in DOMAIN b \ {f} |-> b[g]] : f \in DOMAIN b}

RECURSIVE BodiesWithin(_)
BodiesWithin(n) ==
    IF n = 0 THEN {Example} ELSE UNION {Deviate(b) : b \in BodiesWithin(n - 1)}

\* Request bodies of the validation specification
Bodies == BodiesWithin(MaxDeviations)

HPGaming == [Example EXCEPT !.company = "HP", !.type_name = "Gaming", !.ram = 16,
                            !.hdd = 0, !.ssd = 0]

\* Request bodies of the pipeline specification: the example, the example with
\* RAM 5, and one that leaves out hdd and ssd
PipelineBodies ==
    {Example, [Example EXCEPT !.ram = 5],
     [g \in Fields \ {"hdd", "ssd"} |-> HPGaming[g]]}

\* The feature records that reach the service
FeatureRecords == {Validate(b).features : b \in PipelineBodies} \ {None}

\* Field dicts that no validation produced: what model() of a caller's own
\* object may return
MinusOne == [Example EXCEPT !.hdd = -1]
MinusTwo == [Example EXCEPT !.hdd = -2]
Unvalidated == {MinusOne, MinusTwo}

\* Everything the regressor is asked about
ModelInputs == FeatureRecords \cup Unvalidated

\* The fields in the order the class declares them, which is the order
\* of the dict that model_dump() returns
FieldOrder == <<"company", "type_name", "ram", "weight", "touchscreen", "ips", "ppi",
                "cpu_brand", "hdd", "ssd", "gpu_brand", "os">>

Reverse(s) == [i \in 1..Len(s) |-> s[Len(s) + 1 - i]]

\* Orders in which a caller's object lists its fields
Orders == {FieldOrder, Reverse(FieldOrder)}

---------------------------------------------------------------------------
(* SimpleCache: utils/cache.py *)

TTL == 300

EmptyCache == [k \in {} |-> None]

SimpleCache_get_Sliding(c, key, t) ==
    IF key \in DOMAIN c
    THEN IF t - c[key][2] < TTL
         THEN [ret |-> c[key][1], cache |-> [c EXCEPT ![key] = <<c[key][1], t>>]]
         ELSE [ret |-> None, cache |-> [k \in DOMAIN c \ {key} |-> c[k]]]
    ELSE [ret |-> None, cache |-> c]

\* SimpleCache.get at time t: the value returned and the store afterwards
SimpleCache_get(c, key, t) ==
    IF key \in DOMAIN c
    THEN LET value == c[key][1]
             timestamp == c[key][2]
         IN  IF t - timestamp < TTL
             THEN [ret |-> value, cache |-> c]
             ELSE [ret |-> None, cache |-> [k \in DOMAIN c \ {key} |-> c[k]]]
    ELSE [ret |-> None, cache |-> c]

SimpleCache_set_NoTimestamp(c, key, value, t) ==
    [k \in DOMAIN c \cup {key} |-> IF k = key THEN <<value, 0>> ELSE c[k]]

SimpleCache_set_KeepFirst(c, key, value, t) ==
    IF key \in DOMAIN c THEN c
    ELSE [k \in DOMAIN c \cup {key} |-> IF k = key THEN <<value, t>> ELSE c[k]]

\* SimpleCache.set at time t
SimpleCache_set(c, key, value, t) ==
    [k \in DOMAIN c \cup {key} |-> IF k = key THEN <<value, t>> ELSE c[k]]

SimpleCache_clear_Keep(c) == c

\* SimpleCache.clear
SimpleCache_clear(c) == EmptyCache

---------------------------------------------------------------------------
(* Price corrections: prices in thousandths *)

Unit == 1000

\* floor(Unit * e^x) for whole x; beyond the table e^x is below one thousandth
\* or above every threshold and clamp of the corrections
ExpTable ==
    [x \in -8..14 |->
        CASE x = -8 -> 0 [] x = -7 -> 0 [] x = -6 -> 2 [] x = -5 -> 6
          [] x = -4 -> 18 [] x = -3 -> 49 [] x = -2 -> 135 [] x = -1 -> 367
          [] x = 0 -> 1000 [] x = 1 -> 2718 [] x = 2 -> 7389 [] x = 3 -> 20085
          [] x = 4 -> 54598 [] x = 5 -> 148413 [] x = 6 -> 403428
          [] x = 7 -> 1096633 [] x = 8 -> 2980957 [] x = 9 -> 8103083
          [] x = 10 -> 22026465 [] x = 11 -> 59874141 [] x = 12 -> 162754791
          [] x = 13 -> 442413392 [] x = 14 -> 1202604284]

\* np.exp of a value in thousandths (whole values only)
Exp(p) ==
    LET x == p \div Unit
    IN  IF x < -8 THEN 0 ELSE IF x > 14 THEN ExpTable[14] ELSE ExpTable[x]

Max(a, b) == IF b > a THEN b ELSE a
Min(a, b) == IF b < a THEN b ELSE a

process_prediction_NoFloor(raw) ==
    LET e == IF raw < 100 * Unit THEN Exp(raw) ELSE raw
        s == IF e < 1000 * Unit THEN e * 1000 ELSE e
    IN  Min(s, 500000 * Unit)

\* LaptopPriceModel._process_prediction
process_prediction(raw) ==
    LET e == IF raw < 100 * Unit THEN Exp(raw) ELSE raw
        s == IF e < 1000 * Unit THEN e * 1000 ELSE e
    IN  Max(1000 * Unit, Min(s, 500000 * Unit))

\* The service-layer correction with the model layer's scale factor
apply_price_correction_Scale1000(price) ==
    LET e == IF price < 100 * Unit THEN Exp(price) ELSE price
        s == IF e < 10000 * Unit THEN e * 1000 ELSE e
    IN  Max(10000 * Unit, Min(s, 500000 * Unit))

\* PredictionService._apply_price_correction
apply_price_correction(price) ==
    LET e == IF price < 100 * Unit THEN Exp(price) ELSE price
        s == IF e < 10000 * Unit THEN e * 100 ELSE e
    IN  Max(10000 * Unit, Min(s, 500000 * Unit))

\* LaptopPriceModel.format_price: the rupee sign and the amount (in thousandths)
\* that is printed with thousands separators and two decimals
format_price(price) ==
    [symbol |-> "rupee", amount |-> IF price < 100 * Unit THEN price * 1000 ELSE price]

---------------------------------------------------------------------------
(* Model files and loader: models/prediction_model.py *)

\* What model.predict does with one feature record: raise, or return a raw value
\* (whole units).  A regressor is deterministic.
Returns(x) == [raises |-> FALSE, raw |-> x * Unit]
Raises == [raises |-> TRUE, raw |-> 0]

Regressors ==
    {[f \in ModelInputs |-> IF f.company # "Dell" THEN Returns(5000)
                            ELSE IF f.hdd = -2 THEN Returns(12) ELSE Returns(11)],
     [f \in ModelInputs |-> IF f.company = "Dell" THEN Returns(-3) ELSE Raises]}

FileStates == {"ok", "missing", "corrupt"}

\* assigned: how many times load_model has assigned self.model and self.df
Unloaded == [is_loaded |-> FALSE, model |-> None, df |-> None, assigned |-> 0]

load_model_begin_NoExistsCheck(l, fs) ==
    IF l.is_loaded THEN "skip" ELSE "gather"

\* The first statements of load_model, up to the gather: "skip" (already loaded),
\* "raise" (a file does not exist) or "gather" (both loads submitted)
load_model_begin(l, fs) ==
    IF l.is_loaded THEN "skip"
    ELSE IF fs.model = "missing" \/ fs.data = "missing" THEN "raise"
    ELSE "gather"

\* load_model with one await and one assignment per file: the model is
\* assigned even when the data file fails to load
load_model_finish_Partial(l, fs) ==
    IF fs.model = "corrupt"
    THEN [raised |-> TRUE, loader |-> l]
    ELSE IF fs.data = "corrupt"
    THEN [raised |-> TRUE,
          loader |-> [l EXCEPT !.model = fs.regressor, !.assigned = @ + 1]]
    ELSE [raised |-> FALSE,
          loader |-> [is_loaded |-> TRUE, model |-> fs.regressor, df |-> [table |-> "df"],
                      assigned |-> l.assigned + 1]]

\* The gather of the two _load_pickle calls and the assignments after it
load_model_finish(l, fs) ==
    IF fs.model = "corrupt" \/ fs.data = "corrupt"
    THEN [raised |-> TRUE, loader |-> l]
    ELSE [raised |-> FALSE,
          loader |-> [is_loaded |-> TRUE, model |-> fs.regressor, df |-> [table |-> "df"],
                      assigned |-> l.assigned + 1]]

---------------------------------------------------------------------------
(* PredictionService: services/v1/prediction_service.py *)

Req == 1..MaxReq

\* A LaptopFeatures object has no attribute "model"; the object a direct caller
\* of the service passes may have one, returning its field dict.
LaptopFeatures(fields) == [fields |-> fields, order |-> FieldOrder, has_model |-> FALSE]
WithModelMethodIn(fields, order) == [fields |-> fields, order |-> order, has_model |-> TRUE]
WithModelMethod(fields) == WithModelMethodIn(fields, FieldOrder)

\* feature_dict.items(): the (name, value) pairs in the order of the dict
dict_items(obj) == [i \in 1..Len(obj.order) |-> <<obj.order[i], obj.fields[obj.order[i]]>>]

\* frozenset(iterable)
frozenset(items) == {items[i] : i \in 1..Len(items)}

\* The fields whose values are Python ints
IntFields == {"ram", "touchscreen", "ips", "hdd", "ssd"}

\* hash() of a (name, value) tuple, computed from the hashes of its two
\* components. CPython: hash(n) = n for a small int except hash(-1) = -2;
\* the hash of a string or a float is stood for by the value itself.
TupleHash_Injective(t) == t
TupleHash(t) == IF t[1] \in IntFields /\ t[2] = -1 THEN <<t[1], -2>> ELSE t

\* hash() of a frozenset: computed from the hashes of its elements; the
\* mixing is stood for by the set of element hashes.
Hash(s) == {TupleHash(t) : t \in s}

\* PredictionService._create_cache_key: features.model() raises AttributeError
\* when the object has no such attribute
create_cache_key(obj) ==
    IF ~obj.has_model
    THEN [raised |-> TRUE, key |-> None]
    ELSE [raised |-> FALSE, key |-> [prefix |-> "prediction:", hash |-> Hash(frozenset(dict_items(obj)))]]

uuid4_Repeat(n) == IF n = 0 THEN 1 ELSE n

\* str(uuid.uuid4()): a value no earlier draw returned, n draws having been made
uuid4(n) == n + 1

Keys == {create_cache_key(WithModelMethod(f)).key : f \in FeatureRecords}

PredictionResponse(id, price, features) ==
    [prediction_id |-> id, predicted_price |-> price,
     price_formatted |-> format_price(price), features |-> features]

\* prev: what the key held when a set overwrote it
NoOp == [op |-> "none", key |-> None, ret |-> None, prev |-> None, at |-> 0]

Unwritten == [k \in Keys |-> None]

\* No get in progress
NoGet == [pc |-> "idle", key |-> None, value |-> None, timestamp |-> 0]

\* No admin request made yet
NoAdmin == [route |-> "none", request |-> None, status |-> 0, body |-> None]

IdleReq == [pc |-> "idle", via |-> "none", body |-> None, features |-> None,
            key |-> None, fut |-> None, outcome |-> "none", errors |-> {},
            result |-> None, saved |-> "none", stages |-> <<>>]

\* Calls are numbered in the order they are made; 0 when all are used
NextCall ==
    LET idle == {r \in Req : req[r].pc = "idle"}
    IN  IF idle = {} THEN 0 ELSE CHOOSE r \in idle : \A q \in idle : r <= q

\* What the caller sees when predict_price raises: the router turns every
\* exception into a 500 (routers/v1/predictions.py)
Failure(via) == IF via = "router" THEN "http500" ELSE "raised"

ServiceEnter_NoLookup(r, via, body, obj) ==
    LET k == create_cache_key(obj)
        base == [IdleReq EXCEPT !.via = via, !.body = body, !.features = obj.fields]
    IN  IF k.raised
        THEN /\ req' = [req EXCEPT ![r] = [base EXCEPT !.pc = "done",
                                                       !.outcome = Failure(via),
                                                       !.stages = <<"key">>]]
             /\ UNCHANGED <<cache, queue>>
        ELSE /\ cache' = cache
             /\ req' = [req EXCEPT ![r] = [base EXCEPT !.pc = "waiting",
                                                       !.key = k.key,
                                                       !.stages = <<"key", "cache_get", "submit">>]]
             /\ queue' = Append(queue, r)

\* predict_price from its first line to its first await, for call r with the
\* features object obj
ServiceEnter(r, via, body, obj) ==
    LET k == create_cache_key(obj)
        g == SimpleCache_get(cache, k.key, now)
        base == [IdleReq EXCEPT !.via = via, !.body = body, !.features = obj.fields]
    IN  IF k.raised
        THEN /\ req' = [req EXCEPT ![r] = [base EXCEPT !.pc = "done",
                                                       !.outcome = Failure(via),
                                                       !.stages = <<"key">>]]
             /\ UNCHANGED <<cache, queue>>
        ELSE /\ cache' = g.cache
             /\ IF g.ret # None
                THEN /\ req' = [req EXCEPT ![r] = [base EXCEPT !.pc = "done",
                                                               !.key = k.key,
                                                               !.outcome = "ok",
                                                               !.result = g.ret,
                                                               !.stages = <<"key", "cache_get">>]]
                     /\ UNCHANGED queue
                ELSE /\ req' = [req EXCEPT ![r] = [base EXCEPT !.pc = "waiting",
                                                               !.key = k.key,
                                                               !.stages = <<"key", "cache_get", "submit">>]]
                     /\ queue' = Append(queue, r)

\* POST /predict: FastAPI validates the body into a LaptopFeatures (422 on
\* failure, the handler is not called), then the handler calls the service
Receive(r, body) ==
    /\ app = "serving"
    /\ r = NextCall
    /\ LET v == Validate(body)
       IN  IF v.errors # {}
           THEN /\ req' = [req EXCEPT ![r] = [IdleReq EXCEPT !.pc = "done",
                                                             !.via = "router",
                                                             !.body = body,
                                                             !.outcome = "http422",
                                                             !.errors = v.errors]]
                /\ UNCHANGED <<cache, queue>>
           ELSE ServiceEnter(r, "router", body, LaptopFeatures(v.features))
    /\ UNCHANGED <<now, files, loader, app, worker, tasks, db, nextId, norm, admin, getting>>

\* prediction_service.predict_price called directly with an object that has a
\* model() method
DirectCall(r, f) ==
    /\ app # "aborted"
    /\ r = NextCall
    /\ ServiceEnter(r, "direct", None, WithModelMethod(f))
    /\ UNCHANGED <<now, files, loader, app, worker, tasks, db, nextId, norm, admin, getting>>

IdleWorker == [pc |-> "idle", r |-> 0]

SetFuture(r, f) == [req EXCEPT ![r].fut = f]

\* predict_price called directly with an object whose model() lists the
\* fields in the given order; the order is kept as what the caller passed
DirectCallIn(r, f, order) ==
    /\ app # "aborted"
    /\ r = NextCall
    /\ ServiceEnter(r, "direct", [order |-> order], WithModelMethodIn(f, order))
    /\ UNCHANGED <<now, files, loader, app, worker, tasks, db, nextId, norm, admin, getting>>

\* A worker that takes the job submitted last
WorkerTake_Lifo ==
    /\ worker.pc = "idle"
    /\ queue # <<>>
    /\ LET r == queue[Len(queue)]
           b == load_model_begin(loader, files)
       IN  /\ queue' = SubSeq(queue, 1, Len(queue) - 1)
           /\ CASE b = "skip" ->
                     /\ worker' = [pc |-> "predicting", r |-> r]
                     /\ UNCHANGED <<req, files>>
                [] b = "raise" ->
                     /\ worker' = IdleWorker
                     /\ req' = SetFuture(r, [raised |-> TRUE, value |-> 0])
                     /\ UNCHANGED files
                [] b = "gather" ->
                     /\ worker' = [pc |-> "loading", r |-> r]
                     /\ req' = [req EXCEPT ![r].stages = @ \o <<"load">>]
                     /\ files' = [files EXCEPT !.opened = @ + 1]
    /\ UNCHANGED <<now, cache, loader, app, tasks, db, nextId,
                   written, lastOp, norm, admin, getting>>

\* The worker thread takes the next submitted call and runs
\* asyncio.run(prediction_model.predict(feature_dict)) up to its first await
WorkerTake ==
    /\ worker.pc = "idle"
    /\ queue # <<>>
    /\ LET r == Head(queue)
           b == load_model_begin(loader, files)
       IN  /\ queue' = Tail(queue)
           /\ CASE b = "skip" ->
                     /\ worker' = [pc |-> "predicting", r |-> r]
                     /\ UNCHANGED <<req, files>>
                [] b = "raise" ->
                     /\ worker' = IdleWorker
                     /\ req' = SetFuture(r, [raised |-> TRUE, value |-> 0])
                     /\ UNCHANGED files
                [] b = "gather" ->
                     /\ worker' = [pc |-> "loading", r |-> r]
                     /\ req' = [req EXCEPT ![r].stages = @ \o <<"load">>]
                     /\ files' = [files EXCEPT !.opened = @ + 1]
    /\ UNCHANGED <<now, cache, loader, app, tasks, db, nextId,
                   written, lastOp, norm, admin, getting>>

\* The lazy load in the worker thread completes
WorkerLoadDone ==
    /\ worker.pc = "loading"
    /\ LET l == load_model_finish(loader, files)
       IN  IF l.raised
           THEN /\ worker' = IdleWorker
                /\ req' = SetFuture(worker.r, [raised |-> TRUE, value |-> 0])
                /\ UNCHANGED loader
           ELSE /\ worker' = [worker EXCEPT !.pc = "predicting"]
                /\ loader' = l.loader
                /\ UNCHANGED req
    /\ UNCHANGED <<now, cache, files, app, queue, tasks, db, nextId,
                   written, lastOp, norm, admin, getting>>

WorkerPredictDone_Retry ==
    /\ worker.pc = "predicting"
    /\ LET out == loader.model[req[worker.r].features]
           first == \A i \in 1..Len(req[worker.r].stages) :
                        req[worker.r].stages[i] # "infer"
       IN  IF out.raises /\ first
           THEN /\ req' = [req EXCEPT ![worker.r].stages = @ \o <<"infer">>,
                                      ![worker.r].fut = [raised |-> TRUE, value |-> 0]]
                /\ worker' = worker
           ELSE /\ req' = [req EXCEPT ![worker.r].fut =
                                          IF out.raises THEN [raised |-> TRUE, value |-> 0]
                                          ELSE [raised |-> FALSE,
                                                value |-> process_prediction(out.raw)],
                                      ![worker.r].stages = @ \o <<"infer">>]
                /\ worker' = IdleWorker
    /\ UNCHANGED <<now, cache, files, loader, app, queue, tasks, db, nextId,
                   written, lastOp, norm, admin, getting>>

\* model.predict returns or raises; _process_prediction; the future completes
WorkerPredictDone ==
    /\ worker.pc = "predicting"
    /\ LET out == loader.model[req[worker.r].features]
           fut == IF out.raises THEN [raised |-> TRUE, value |-> 0]
                  ELSE [raised |-> FALSE, value |-> process_prediction(out.raw)]
       IN  req' = [req EXCEPT ![worker.r].fut = fut,
                              ![worker.r].stages = @ \o <<"infer">>]
    /\ worker' = IdleWorker
    /\ UNCHANGED <<now, cache, files, loader, app, queue, tasks, db, nextId,
                   written, lastOp, norm, admin, getting>>

\* The task awaiting predict_price is cancelled while it waits for the
\* executor's future (line 47): CancelledError is raised at the await and the
\* rest of predict_price never runs. A job still queued in the executor is
\* cancelled with it; a job the worker has started goes on to its end.
Cancel(r) ==
    /\ req[r].pc = "waiting"
    /\ req' = [req EXCEPT ![r].pc = "done", ![r].outcome = "cancelled"]
    /\ queue' = SelectSeq(queue, LAMBDA q : q # r)
    /\ UNCHANGED <<now, cache, files, loader, app, worker, tasks, db, nextId,
                   written, lastOp, norm, admin, getting>>

\* Resume without the cache.set of line 65: the response is built and
\* returned, the save task is created, nothing is stored.
Resume_NoCacheSet(r) ==
    /\ req[r].pc = "waiting"
    /\ req[r].fut # None
    /\ IF req[r].fut.raised
       THEN /\ req' = [req EXCEPT ![r].pc = "done", ![r].outcome = Failure(req[r].via)]
            /\ UNCHANGED <<cache, tasks, nextId>>
       ELSE LET predicted_price == apply_price_correction(req[r].fut.value)
                prediction_id == uuid4(nextId)
                response == PredictionResponse(prediction_id, predicted_price,
                                               req[r].features)
            IN  /\ nextId' = nextId + 1
                /\ cache' = cache
                /\ tasks' = Append(tasks, [r |-> r, features |-> req[r].features,
                                           response |-> response])
                /\ req' = [req EXCEPT ![r].pc = "done", ![r].outcome = "ok",
                                      ![r].result = response, ![r].saved = "pending",
                                      ![r].stages = @ \o <<"correct", "cache_set", "create_task">>]
    /\ UNCHANGED <<now, files, loader, app, queue, worker, db, norm, admin, getting>>

\* Resume that awaits the save instead of creating a task for it: the
\* save has run (here against an unreachable store) before the call returns.
Resume_AwaitSave(r) ==
    /\ req[r].pc = "waiting"
    /\ req[r].fut # None
    /\ IF req[r].fut.raised
       THEN /\ req' = [req EXCEPT ![r].pc = "done", ![r].outcome = Failure(req[r].via)]
            /\ UNCHANGED <<cache, tasks, nextId>>
       ELSE LET predicted_price == apply_price_correction(req[r].fut.value)
                prediction_id == uuid4(nextId)
                response == PredictionResponse(prediction_id, predicted_price,
                                               req[r].features)
            IN  /\ nextId' = nextId + 2
                /\ cache' = SimpleCache_set(cache, req[r].key, response, now)
                /\ tasks' = tasks
                /\ req' = [req EXCEPT ![r].pc = "done", ![r].outcome = "ok",
                                      ![r].result = response, ![r].saved = "failed",
                                      ![r].stages = @ \o <<"correct", "cache_set", "create_task">>]
    /\ UNCHANGED <<now, files, loader, app, queue, worker, db, norm, admin, getting>>

\* predict_price from the completion of its await to its return
Resume(r) ==
    /\ req[r].pc = "waiting"
    /\ req[r].fut # None
    /\ IF req[r].fut.raised
       THEN /\ req' = [req EXCEPT ![r].pc = "done", ![r].outcome = Failure(req[r].via)]
            /\ UNCHANGED <<cache, tasks, nextId>>
       ELSE LET predicted_price == apply_price_correction(req[r].fut.value)
                prediction_id == uuid4(nextId)
                response == PredictionResponse(prediction_id, predicted_price,
                                               req[r].features)
            IN  /\ nextId' = nextId + 1
                /\ cache' = SimpleCache_set(cache, req[r].key, response, now)
                /\ tasks' = Append(tasks, [r |-> r, features |-> req[r].features,
                                           response |-> response])
                /\ req' = [req EXCEPT ![r].pc = "done", ![r].outcome = "ok",
                                      ![r].result = response, ![r].saved = "pending",
                                      ![r].stages = @ \o <<"correct", "cache_set", "create_task">>]
    /\ UNCHANGED <<now, files, loader, app, queue, worker, db, norm, admin, getting>>

---------------------------------------------------------------------------
(* Repository: repositories/mongodb_curd_operations_repository.py *)

\* MongoDBRepository.insert_prediction: the document handed to insert_one, id
\* being the uuid4 drawn inside it
insert_prediction(data, id, t) ==
    [data EXCEPT !.prediction_id = id, !.timestamp = t]

\* MongoDBRepository.find_prediction_by_id: find_one returns the first match
find_prediction_by_id(coll, prediction_id) ==
    LET hits == {i \in 1..Len(coll) : coll[i].prediction_id = prediction_id}
    IN  IF hits = {} THEN None
        ELSE coll[CHOOSE i \in hits : \A j \in hits : i <= j]

\* PredictionRecord built by _save_prediction_record
PredictionRecord(features, response, t) ==
    [input_features |-> features, output_prediction |-> response.predicted_price,
     price_formatted |-> response.price_formatted, timestamp |-> t,
     prediction_id |-> response.prediction_id]

SaveTask_Raise(db_up) ==
    /\ tasks # <<>>
    /\ LET t == Head(tasks)
           record == PredictionRecord(t.features, t.response, now)
           id == uuid4(nextId)
       IN  /\ tasks' = Tail(tasks)
           /\ nextId' = nextId + 1
           /\ IF db_up
              THEN /\ db' = Append(db, insert_prediction(record, id, now))
                   /\ req' = [req EXCEPT ![t.r].saved = "stored"]
              ELSE /\ db' = db
                   /\ req' = [req EXCEPT ![t.r].saved = "failed",
                                         ![t.r].outcome = Failure(req[t.r].via),
                                         ![t.r].result = None]
    /\ UNCHANGED <<now, cache, files, loader, app, queue, worker, written,
                   lastOp, norm, admin, getting>>

\* The background task _save_prediction_record runs: the record is built and
\* inserted; insert_one raises when the MongoDB server does not answer (db_up
\* false), and the exception is caught and logged
SaveTask(db_up) ==
    /\ tasks # <<>>
    /\ LET t == Head(tasks)
           record == PredictionRecord(t.features, t.response, now)
           id == uuid4(nextId)
       IN  /\ tasks' = Tail(tasks)
           /\ nextId' = nextId + 1
           /\ IF db_up
              THEN /\ db' = Append(db, insert_prediction(record, id, now))
                   /\ req' = [req EXCEPT ![t.r].saved = "stored"]
              ELSE /\ db' = db
                   /\ req' = [req EXCEPT ![t.r].saved = "failed"]
    /\ UNCHANGED <<now, cache, files, loader, app, queue, worker, written,
                   lastOp, norm, admin, getting>>

---------------------------------------------------------------------------
(* Admin router: routers/v1/crud_operations.py, and the repository calls
   behind it *)

\* A path segment: a word, or the text of a uuid (word empty).  No uuid text
\* equals a word.
Word(w) == [word |-> w, id |-> 0]
UuidText(n) == [word |-> "", id |-> n]

Lit(name) == [param |-> FALSE, name |-> name]
Param(name) == [param |-> TRUE, name |-> name]

\* The routes of the admin router, in the order their decorators run
CrudRoutes ==
    << [method |-> "GET", path |-> <<>>, handler |-> "get_all_predictions"],
       [method |-> "GET", path |-> <<Param("prediction_id")>>, handler |-> "get_prediction"],
       [method |-> "GET", path |-> <<Lit("company"), Param("company")>>,
        handler |-> "get_predictions_by_company"],
       [method |-> "GET", path |-> <<Lit("price-range")>>,
        handler |-> "get_predictions_by_price_range"],
       [method |-> "PUT", path |-> <<Param("prediction_id")>>, handler |-> "update_prediction"],
       [method |-> "DELETE", path |-> <<Param("prediction_id")>>,
        handler |-> "delete_prediction"],
       [method |-> "DELETE", path |-> <<Lit("company"), Param("company")>>,
        handler |-> "delete_predictions_by_company"],
       [method |-> "GET", path |-> <<Lit("stats"), Lit("count")>>,
        handler |-> "get_predictions_count"],
       [method |-> "GET", path |-> <<Lit("stats"), Lit("companies")>>,
        handler |-> "get_companies_stats"],
       [method |-> "GET", path |-> <<Lit("stats"), Lit("price")>>,
        handler |-> "get_price_statistics"] >>

\* A route pattern matches a path segment by segment; a parameter matches any
\* segment
Match(pattern, path) ==
    /\ Len(pattern) = Len(path)
    /\ \A i \in 1..Len(pattern) : pattern[i].param \/ pattern[i].name = path[i].word

Dispatch_LiteralFirst(method, path) ==
    LET hits == {i \in 1..Len(CrudRoutes) :
                    CrudRoutes[i].method = method /\ Match(CrudRoutes[i].path, path)}
        exact == {i \in hits : \A j \in 1..Len(path) : ~CrudRoutes[i].path[j].param}
    IN  IF hits = {} THEN 0
        ELSE IF exact # {} THEN CHOOSE i \in exact : \A j \in exact : i <= j
        ELSE CHOOSE i \in hits : \A j \in hits : i <= j

\* The router calls the first route, in declaration order, that matches the
\* method and the path; 0 when none does
Dispatch(method, path) ==
    LET hits == {i \in 1..Len(CrudRoutes) :
                    CrudRoutes[i].method = method /\ Match(CrudRoutes[i].path, path)}
    IN  IF hits = {} THEN 0 ELSE CHOOSE i \in hits : \A j \in hits : i <= j

\* PredictionRecord(**record): the five fields of the model, other keys dropped
AsPredictionRecord(record) ==
    [f \in {"input_features", "output_prediction", "price_formatted", "timestamp",
            "prediction_id"} |-> record[f]]

\* The positions of coll, by descending timestamp (ties in collection order)
RECURSIVE SortDesc(_, _)
SortDesc(coll, idx) ==
    IF idx = {} THEN <<>>
    ELSE LET i == CHOOSE a \in idx :
                     \A b \in idx : \/ coll[a].timestamp > coll[b].timestamp
                                    \/ coll[a].timestamp = coll[b].timestamp /\ a <= b
         IN  <<coll[i]>> \o SortDesc(coll, idx \ {i})

\* MongoDBRepository.find_predictions_by_price_range
find_predictions_by_price_range(coll, min_price, max_price, limit) ==
    LET hits == {i \in 1..Len(coll) : /\ coll[i].output_prediction >= min_price
                                      /\ coll[i].output_prediction <= max_price}
        sorted == SortDesc(coll, hits)
    IN  SubSeq(sorted, 1, Min(limit, Len(sorted)))

\* MongoDBRepository.update_prediction: $set of the fields given and updated_at
\* on the first record with the id
update_prediction(coll, prediction_id, update_data, t) ==
    LET hits == {i \in 1..Len(coll) : coll[i].prediction_id = prediction_id}
        data == [f \in (DOMAIN update_data \ {"prediction_id", "_id"}) \cup {"updated_at"} |->
                    IF f = "updated_at" THEN t ELSE update_data[f]]
    IN  IF hits = {} THEN [modified |-> FALSE, coll |-> coll]
        ELSE LET i == CHOOSE a \in hits : \A b \in hits : a <= b
                 rec == [f \in DOMAIN coll[i] \cup DOMAIN data |->
                            IF f \in DOMAIN data THEN data[f] ELSE coll[i][f]]
             IN  [modified |-> TRUE,
                  coll |-> [k \in 1..Len(coll) |-> IF k = i THEN rec ELSE coll[k]]]

\* MongoDBRepository.delete_prediction: delete_one removes the first record with
\* the id
delete_prediction(coll, prediction_id) ==
    LET hits == {i \in 1..Len(coll) : coll[i].prediction_id = prediction_id}
    IN  IF hits = {} THEN [deleted |-> FALSE, coll |-> coll]
        ELSE LET i == CHOOSE a \in hits : \A b \in hits : a <= b
             IN  [deleted |-> TRUE,
                  coll |-> SubSeq(coll, 1, i - 1) \o SubSeq(coll, i + 1, Len(coll))]

\* The record with the id a path segment spells, None when there is none
RecordAt(coll, segment) ==
    IF segment.word = "" THEN find_prediction_by_id(coll, segment.id) ELSE None

Response(route, request, status, body) ==
    [route |-> route, request |-> request, status |-> status, body |-> body]

\* Default of the limit query parameter of /price-range
DefaultLimit == 50

\* The fields PUT /{prediction_id} lets a client update
allowed_fields == {"input_features", "output_prediction", "price_formatted"}

\* One request to the admin router: the route is chosen, then its handler runs.
\* query holds min_price and max_price, data is the body of a PUT.
AdminRequest(method, path, query, data) ==
    /\ app = "serving"
    /\ LET i == Dispatch(method, path)
           request == [method |-> method, path |-> path, query |-> query, data |-> data]
           handler == IF i = 0 THEN "none" ELSE CrudRoutes[i].handler
       IN  CASE handler = "get_prediction" ->
                  LET rec == RecordAt(db, path[1])
                  IN  /\ admin' = IF rec = None
                                  THEN Response(handler, request, 404, None)
                                  ELSE Response(handler, request, 200, AsPredictionRecord(rec))
                      /\ db' = db
             [] handler = "get_predictions_by_price_range" ->
                  /\ admin' =
                        IF query.min_price > query.max_price
                        THEN Response(handler, request, 400, None)
                        ELSE LET found == find_predictions_by_price_range(
                                              db, query.min_price, query.max_price, DefaultLimit)
                             IN  Response(handler, request, 200,
                                          [k \in 1..Len(found) |-> AsPredictionRecord(found[k])])
                  /\ db' = db
             [] handler = "update_prediction" ->
                  IF ~(DOMAIN data \subseteq allowed_fields)
                  THEN /\ admin' = Response(handler, request, 400, None)
                       /\ db' = db
                  ELSE LET u == IF path[1].word = ""
                                THEN update_prediction(db, path[1].id, data, now)
                                ELSE [modified |-> FALSE, coll |-> db]
                       IN  /\ db' = u.coll
                           /\ admin' = Response(handler, request,
                                                IF u.modified THEN 200 ELSE 404, None)
             [] handler = "delete_prediction" ->
                  LET d == IF path[1].word = ""
                           THEN delete_prediction(db, path[1].id)
                           ELSE [deleted |-> FALSE, coll |-> db]
                  IN  /\ db' = d.coll
                      /\ admin' = Response(handler, request,
                                           IF d.deleted THEN 200 ELSE 404, None)
             [] OTHER ->
                  /\ admin' = Response(handler, request, IF i = 0 THEN 404 ELSE 0, None)
                  /\ db' = db
    /\ UNCHANGED <<now, cache, files, loader, app, req, queue, worker, tasks, nextId,
                   written, lastOp, norm, getting>>

---------------------------------------------------------------------------
(* Application lifespan: main.py, and DELETE /cache *)

\* lifespan: initialize_model up to the gather inside load_model
StartupBegin ==
    /\ app = "starting"
    /\ LET b == load_model_begin(loader, files)
       IN  /\ app' = CASE b = "skip" -> "serving"
                         [] b = "raise" -> "aborted"
                         [] b = "gather" -> "loading"
           /\ files' = IF b = "gather" THEN [files EXCEPT !.opened = @ + 1] ELSE files
    /\ UNCHANGED <<now, cache, loader, req, queue, worker, tasks, db, nextId, written, lastOp, norm, admin, getting>>

\* lifespan: the gather completes; a failure aborts the start of the application
StartupLoadDone ==
    /\ app = "loading"
    /\ LET l == load_model_finish(loader, files)
       IN  /\ loader' = l.loader
           /\ app' = IF l.raised THEN "aborted" ELSE "serving"
    /\ UNCHANGED <<now, cache, files, req, queue, worker, tasks, db, nextId, written, lastOp, norm, admin, getting>>

ClearCache_DropRecords ==
    /\ app = "serving"
    /\ cache' = SimpleCache_clear(cache)
    /\ db' = <<>>
    /\ UNCHANGED <<now, files, loader, app, req, queue, worker, tasks, nextId, norm, admin, getting>>

\* DELETE /cache: PredictionService.clear_cache
ClearCache ==
    /\ app = "serving"
    /\ cache' = SimpleCache_clear(cache)
    /\ UNCHANGED <<now, files, loader, app, req, queue, worker, tasks, db, nextId, norm, admin, getting>>

\* time.time() advances by d seconds
Tick(d) ==
    /\ now + d <= MaxTicks * TTL
    /\ now' = now + d
    /\ UNCHANGED <<cache, files, loader, app, req, queue, worker, tasks, db, nextId, written, lastOp, norm, admin, getting>>

---------------------------------------------------------------------------
(* The cache driven directly: get, set and clear on prediction_cache *)

\* Values stored by the direct cache operations
CacheValues ==
    {PredictionResponse(id, 60000 * Unit, f) : id \in 1..2, f \in FeatureRecords}

CacheGet(k) ==
    /\ LET g == SimpleCache_get(cache, k, now)
       IN  /\ cache' = g.cache
           /\ lastOp' = [op |-> "get", key |-> k, ret |-> g.ret, prev |-> None, at |-> now]
    /\ UNCHANGED <<now, files, loader, app, req, queue, worker, tasks, db, nextId, written, norm, admin, getting>>

CacheSet(k, v) ==
    /\ cache' = SimpleCache_set(cache, k, v, now)
    /\ lastOp' = [op |-> "set", key |-> k, ret |-> None,
                  prev |-> IF k \in DOMAIN cache THEN cache[k][1] ELSE None, at |-> now]
    /\ written' = [written EXCEPT ![k] = [value |-> v, at |-> now]]
    /\ UNCHANGED <<now, files, loader, app, req, queue, worker, tasks, db, nextId, norm, admin, getting>>

CacheClear ==
    /\ cache' = SimpleCache_clear(cache)
    /\ lastOp' = [op |-> "clear", key |-> None, ret |-> None, prev |-> None, at |-> now]
    /\ written' = Unwritten
    /\ UNCHANGED <<now, files, loader, app, req, queue, worker, tasks, db, nextId, norm, admin, getting>>

---------------------------------------------------------------------------
(* SimpleCache.get statement by statement, on the event-loop thread *)

\* Whether the event-loop thread is free to run a step of another coroutine.
\* predict_price and clear_cache call get, set and clear on the loop's thread
\* and none of the three contains an await, so a coroutine that has entered
\* get leaves it before any other coroutine runs; the executor's worker never
\* touches the cache.
LoopFree_Preempt == TRUE
LoopFree == getting.pc = "idle"

\* "if key in self._cache:" and, when absent, "return None"
GetEnter(k) ==
    /\ LoopFree
    /\ IF k \in DOMAIN cache
       THEN /\ getting' = [NoGet EXCEPT !.pc = "read", !.key = k]
            /\ UNCHANGED lastOp
       ELSE /\ getting' = NoGet
            /\ lastOp' = [op |-> "get", key |-> k, ret |-> None, prev |-> None, at |-> now]
    /\ UNCHANGED <<now, cache, files, loader, app, req, queue, worker, tasks, db, nextId,
                   written, norm, admin>>

\* "value, timestamp = self._cache[key]": KeyError when the key is gone
GetRead ==
    /\ getting.pc = "read"
    /\ getting' = IF getting.key \in DOMAIN cache
                  THEN [getting EXCEPT !.pc = "test",
                                       !.value = cache[getting.key][1],
                                       !.timestamp = cache[getting.key][2]]
                  ELSE [getting EXCEPT !.pc = "raised"]
    /\ UNCHANGED <<now, cache, files, loader, app, req, queue, worker, tasks, db, nextId,
                   written, lastOp, norm, admin>>

\* "if time.time() - timestamp < self._ttl: return value"
GetTest ==
    /\ getting.pc = "test"
    /\ IF now - getting.timestamp < TTL
       THEN /\ getting' = NoGet
            /\ lastOp' = [op |-> "get", key |-> getting.key, ret |-> getting.value,
                          prev |-> None, at |-> now]
       ELSE /\ getting' = [getting EXCEPT !.pc = "del"]
            /\ UNCHANGED lastOp
    /\ UNCHANGED <<now, cache, files, loader, app, req, queue, worker, tasks, db, nextId,
                   written, norm, admin>>

\* "del self._cache[key]" (KeyError when the key is gone) and "return None"
GetDel ==
    /\ getting.pc = "del"
    /\ IF getting.key \in DOMAIN cache
       THEN /\ cache' = [k \in DOMAIN cache \ {getting.key} |-> cache[k]]
            /\ getting' = NoGet
            /\ lastOp' = [op |-> "get", key |-> getting.key, ret |-> None,
                          prev |-> None, at |-> now]
       ELSE /\ getting' = [getting EXCEPT !.pc = "raised"]
            /\ UNCHANGED <<cache, lastOp>>
    /\ UNCHANGED <<now, files, loader, app, req, queue, worker, tasks, db, nextId,
                   written, norm, admin>>

---------------------------------------------------------------------------
(* The two price corrections applied to one raw model output *)

\* Raw model outputs (whole units): small values of both signs, the values on and
\* next to every threshold and clamp, and very large values of both signs
RawOutputs ==
    (-MaxRawMag..MaxRawMag)
        \cup {99, 100, 101, 999, 1000, 1001, 9999, 10000, 10001, 60000,
              499999, 500000, 500001, 2000000, -2000000}

NormStart(raw) == [stage |-> "raw", raw |-> raw * Unit, model |-> 0, service |-> 0,
                   pipeline |-> 0]

\* _process_prediction and _apply_price_correction, each on the raw value
NormLayers ==
    /\ norm.stage = "raw"
    /\ norm' = [norm EXCEPT !.stage = "layers",
                            !.model = process_prediction(norm.raw),
                            !.service = apply_price_correction(norm.raw)]
    /\ UNCHANGED <<now, cache, files, loader, app, req, queue, worker, tasks, db,
                   nextId, written, lastOp, admin, getting>>

\* _apply_price_correction on the output of _process_prediction, as predict_price
\* chains them
NormPipeline ==
    /\ norm.stage = "layers"
    /\ norm' = [norm EXCEPT !.stage = "pipeline",
                            !.pipeline = apply_price_correction(norm.model)]
    /\ UNCHANGED <<now, cache, files, loader, app, req, queue, worker, tasks, db,
                   nextId, written, lastOp, admin, getting>>

---------------------------------------------------------------------------
(* History of the cache operations the service makes.  The actions that call
   the cache (predict_price on entry and on return, clear_cache) leave written
   and lastOp free; a specification conjoins NoTrace, or the trace of the
   operation. *)

NoTrace == UNCHANGED <<written, lastOp>>

\* The cache.get of predict_price for call r, when the key was derived
TraceLookup(r) ==
    /\ lastOp' = IF req'[r].key = None THEN lastOp
                 ELSE [op |-> "get", key |-> req'[r].key,
                       ret |-> SimpleCache_get(cache, req'[r].key, now).ret,
                       prev |-> None, at |-> now]
    /\ written' = written

\* The cache.set of predict_price for call r, when the inference returned
TraceSet(r) ==
    IF req'[r].outcome # "ok" THEN NoTrace
    ELSE /\ written' = [written EXCEPT ![req[r].key] =
                                           [value |-> req'[r].result, at |-> now]]
         /\ lastOp' = [op |-> "set", key |-> req[r].key, ret |-> None,
                       prev |-> IF req[r].key \in DOMAIN cache
                                THEN cache[req[r].key][1] ELSE None,
                       at |-> now]

\* The cache.clear of clear_cache
TraceClear ==
    /\ lastOp' = [op |-> "clear", key |-> None, ret |-> None, prev |-> None, at |-> now]
    /\ written' = Unwritten

---------------------------------------------------------------------------
(* Specifications *)

InitCommon ==
    /\ now = 0
    /\ cache = EmptyCache
    /\ req = [r \in Req |-> IdleReq]
    /\ queue = <<>>
    /\ worker = IdleWorker
    /\ tasks = <<>>
    /\ db = <<>>
    /\ nextId = 0
    /\ written = Unwritten
    /\ lastOp = NoOp
    /\ admin = NoAdmin
    /\ getting = NoGet

\* The process right after import: nothing loaded, the application starting
Init ==
    /\ InitCommon
    /\ files \in [model : FileStates, data : FileStates, regressor : Regressors,
                 opened : {0}]
    /\ loader = Unloaded
    /\ app = "starting"
    /\ norm = NormStart(0)

Next ==
    \/ StartupBegin
    \/ StartupLoadDone
    \/ \E r \in Req, body \in PipelineBodies : Receive(r, body) /\ NoTrace
    \/ \E r \in Req, f \in FeatureRecords : DirectCall(r, f) /\ NoTrace
    \/ WorkerTake
    \/ WorkerLoadDone
    \/ WorkerPredictDone
    \/ \E r \in Req : Resume(r) /\ NoTrace
    \/ \E db_up \in BOOLEAN : SaveTask(db_up)
    \/ ClearCache /\ NoTrace
    \/ Tick(TTL)

Spec == Init /\ [][Next]_vars

Loaded(regressor) == [is_loaded |-> TRUE, model |-> regressor, df |-> [table |-> "df"],
                      assigned |-> 1]

OkFiles == [model |-> "ok", data |-> "ok", regressor |-> CHOOSE g \in Regressors : TRUE,
            opened |-> 0]

\* The application serving, one POST /predict with any of the request bodies
InitValidate ==
    /\ InitCommon
    /\ files = OkFiles
    /\ loader = Loaded(files.regressor)
    /\ app = "serving"
    /\ norm = NormStart(0)

NextValidate == NextCall = 1 /\ \E body \in Bodies : Receive(1, body) /\ NoTrace

SpecValidate == InitValidate /\ [][NextValidate]_vars

\* The cache alone, under direct get, set and clear as time passes
NextCache ==
    \/ \E k \in Keys : CacheGet(k)
    \/ \E k \in Keys, v \in CacheValues : CacheSet(k, v)
    \/ CacheClear
    \/ Tick(TTL \div 2)

SpecCache == InitValidate /\ [][NextCache]_vars

\* The corrections alone, on every raw output
InitNorm ==
    /\ InitCommon
    /\ files = OkFiles
    /\ loader = Loaded(files.regressor)
    /\ app = "serving"
    /\ norm \in {NormStart(raw) : raw \in RawOutputs}

NextNorm == NormLayers \/ NormPipeline

SpecNorm == InitNorm /\ [][NextNorm]_vars

\* Query parameters of /price-range left at their defaults
DefaultQuery == [min_price |-> 0, max_price |-> 1000000 * Unit]

\* Price ranges asked of /price-range: the default, one around the corrected
\* prices, and an inverted one
PriceRanges ==
    {DefaultQuery,
     [min_price |-> 50000 * Unit, max_price |-> 200000 * Unit],
     [min_price |-> 200000 * Unit, max_price |-> 50000 * Unit]}

\* Bodies of PUT /{prediction_id}: a new price, and a field that may not be set
UpdateBodies == {[output_prediction |-> 12345 * Unit], [timestamp |-> 0]}

NoData == [f \in {} |-> 0]

\* The ids a client asks for: those of the stored records, and one never drawn
AdminIds == {db[i].prediction_id : i \in 1..Len(db)} \cup {0}

\* The application serving: one prediction is made, cached and saved, the cache
\* is read, cleared and left to expire, and the admin router is used on the
\* records
NextAdmin ==
    \/ NextCall = 1 /\ DirectCall(1, Validate(Example).features) /\ TraceLookup(1)
    \/ WorkerTake
    \/ WorkerPredictDone
    \/ Resume(1) /\ TraceSet(1)
    \/ SaveTask(TRUE)
    \/ ClearCache /\ TraceClear
    \/ \E k \in Keys : CacheGet(k)
    \/ Tick(TTL)
    \/ \E id \in AdminIds : AdminRequest("GET", <<UuidText(id)>>, DefaultQuery, NoData)
    \/ \E q \in PriceRanges : AdminRequest("GET", <<Word("price-range")>>, q, NoData)
    \/ \E id \in AdminIds, data \in UpdateBodies :
           AdminRequest("PUT", <<UuidText(id)>>, DefaultQuery, data)
    \/ \E id \in AdminIds : AdminRequest("DELETE", <<UuidText(id)>>, DefaultQuery, NoData)

SpecAdmin == InitValidate /\ [][NextAdmin]_vars

\* The application serving, calls made with features objects that have model(),
\* the cache cleared and expiring, with the history of the cache operations
NextServing ==
    \/ \E r \in Req, f \in FeatureRecords : DirectCall(r, f) /\ TraceLookup(r)
    \/ WorkerTake
    \/ WorkerPredictDone
    \/ \E r \in Req : Resume(r) /\ TraceSet(r)
    \/ \E db_up \in BOOLEAN : SaveTask(db_up)
    \/ ClearCache /\ TraceClear
    \/ Tick(TTL)

SpecServing == InitValidate /\ [][NextServing]_vars

---------------------------------------------------------------------------
(* Claims *)

\* Key derivation and lookup: requests over the router, and direct calls with
\* objects that list validated or unvalidated field values in either order
KeyInputs == {Example} \cup Unvalidated

NextKey ==
    \/ \E r \in Req, b \in PipelineBodies : Receive(r, b) /\ NoTrace
    \/ \E r \in Req, f \in KeyInputs, order \in Orders :
          DirectCallIn(r, f, order) /\ NoTrace
    \/ WorkerTake
    \/ WorkerPredictDone
    \/ \E r \in Req : Resume(r) /\ NoTrace
    \/ Tick(TTL)

SpecKey == InitValidate /\ [][NextKey]_vars

\* Calls that may be cancelled while they wait for their inference
NextCancel ==
    \/ \E r \in Req, f \in FeatureRecords : DirectCall(r, f) /\ NoTrace
    \/ WorkerTake
    \/ WorkerPredictDone
    \/ \E r \in Req : Resume(r) /\ NoTrace
    \/ \E r \in Req : Cancel(r)
    \/ \E db_up \in BOOLEAN : SaveTask(db_up)
    \/ Tick(TTL)

SpecCancel == InitValidate /\ [][NextCancel]_vars

\* Cache calls of concurrent requests, get running statement by statement
NextAtomic ==
    \/ \E k \in Keys : GetEnter(k)
    \/ GetRead
    \/ GetTest
    \/ GetDel
    \/ \E k \in Keys, v \in CacheValues : LoopFree /\ CacheSet(k, v)
    \/ LoopFree /\ CacheClear
    \/ Tick(TTL \div 2)

SpecAtomic == InitValidate /\ [][NextAtomic]_vars

Done(r) == req[r].pc = "done"
Stages(r) == {req[r].stages[i] : i \in 1..Len(req[r].stages)}
Computed(r) == Done(r) /\ req[r].outcome = "ok" /\ "cache_set" \in Stages(r)
Hit(r) == Done(r) /\ req[r].outcome = "ok" /\ "cache_set" \notin Stages(r)

\* C1: every valid FeatureRecord posted to /predict, with the model loaded and
\* the model's predict succeeding for it, is answered with a PredictionResult
\* whose predicted_price lies in [10000, 500000].
C1_Claim ==
    \A r \in Req :
        (/\ Done(r)
         /\ req[r].via = "router"
         /\ req[r].outcome # "http422"
         /\ loader.is_loaded
         /\ ~loader.model[req[r].features].raises)
        => /\ req[r].outcome = "ok"
           /\ req[r].result.predicted_price >= 10000 * Unit
           /\ req[r].result.predicted_price <= 500000 * Unit

\* C2: once the background save of a prediction has completed successfully,
\* looking up the prediction_id returned to the caller finds the record of that
\* prediction, carrying that id.
C2_Claim ==
    \A r \in Req :
        req[r].saved = "stored"
        => LET rec == find_prediction_by_id(db, req[r].result.prediction_id)
           IN  /\ rec # None
               /\ rec.prediction_id = req[r].result.prediction_id
               /\ rec.output_prediction = req[r].result.predicted_price

\* C3 as claimed: no two predict_price calls return the same prediction_id,
\* whether the result was computed or served from the cache.
C3_Claim ==
    \A r1, r2 \in Req :
        (r1 # r2 /\ Done(r1) /\ Done(r2) /\ req[r1].outcome = "ok" /\ req[r2].outcome = "ok")
        => req[r1].result.prediction_id # req[r2].result.prediction_id

\* C3 as amended: no two calls that compute their result return the same
\* prediction_id, and a call served from the cache returns the result, id
\* included, that an earlier call computed for the same features.
C3_Theorem ==
    /\ \A r1, r2 \in Req :
          (r1 # r2 /\ Computed(r1) /\ Computed(r2))
          => req[r1].result.prediction_id # req[r2].result.prediction_id
    /\ \A r \in Req :
          Hit(r) => \E q \in Req : /\ q # r
                                   /\ Computed(q)
                                   /\ req[q].features = req[r].features
                                   /\ req[q].result = req[r].result

C3_Witness ==
    \E r1, r2 \in Req : r1 # r2 /\ Computed(r1) /\ Computed(r2)

C3_HitWitness ==
    \E r1, r2 \in Req : r1 # r2 /\ Computed(r1) /\ Hit(r2)

\* The constraints of a FeatureRecord, as the claim lists them, on the fields a
\* body gives
C4_Violations(body) ==
    {f \in DOMAIN body :
        CASE f = "company" -> body[f] \notin Company
          [] f = "type_name" -> body[f] \notin TypeName
          [] f = "cpu_brand" -> body[f] \notin CpuBrand
          [] f = "gpu_brand" -> body[f] \notin GpuBrand
          [] f = "os" -> body[f] \notin OS
          [] f = "weight" -> body[f] < 50 \/ body[f] > 500
          [] f = "ppi" -> body[f] < 9000 \/ body[f] > 40000
          [] f = "hdd" -> body[f] < 0 \/ body[f] > 2000
          [] f = "ssd" -> body[f] < 0 \/ body[f] > 2048
          [] f = "touchscreen" -> body[f] \notin {0, 1}
          [] f = "ips" -> body[f] \notin {0, 1}
          [] OTHER -> FALSE}

C4_OnBound(body) ==
    {f \in DOMAIN body :
        CASE f = "weight" -> body[f] \in {50, 500}
          [] f = "ppi" -> body[f] \in {9000, 40000}
          [] f = "hdd" -> body[f] \in {0, 2000}
          [] f = "ssd" -> body[f] \in {0, 2048}
          [] f = "touchscreen" -> body[f] \in {0, 1}
          [] f = "ips" -> body[f] \in {0, 1}
          [] OTHER -> FALSE}

NoPipelineEffect(r) ==
    /\ req[r].stages = <<>>
    /\ req[r].key = None
    /\ req[r].fut = None
    /\ req[r].result = None
    /\ req[r].saved = "none"
    /\ cache = EmptyCache
    /\ queue = <<>>
    /\ tasks = <<>>
    /\ db = <<>>

\* C4: a POST /predict body that violates a FeatureRecord constraint is answered
\* 422, every violated field is reported, and nothing of the pipeline runs for
\* it (no cache lookup, inference, cache write, persistence); a value exactly on
\* a bound is not an error, and a body whose only deviation from the example is
\* such a value passes validation.
C4_Theorem ==
    \A r \in Req :
        (Done(r) /\ req[r].via = "router")
        => /\ C4_Violations(req[r].body) # {}
              => /\ req[r].outcome = "http422"
                 /\ C4_Violations(req[r].body) \subseteq req[r].errors
                 /\ NoPipelineEffect(r)
           /\ C4_OnBound(req[r].body) \cap req[r].errors = {}
           /\ \A f \in C4_OnBound(req[r].body) :
                 req[r].body = [Example EXCEPT ![f] = req[r].body[f]]
                 => req[r].outcome # "http422"

C4_Witness ==
    \E r \in Req :
        /\ Done(r)
        /\ "weight" \in DOMAIN req[r].body
        /\ req[r].body["weight"] = 501
        /\ req[r].outcome = "http422"
        /\ NoPipelineEffect(r)

C4_BoundWitness ==
    \E r \in Req :
        /\ Done(r)
        /\ req[r].body = [Example EXCEPT !.weight = 500]
        /\ req[r].outcome # "http422"

\* C5: validation accepts a RAM value if and only if it is one of
\* 2, 4, 6, 8, 12, 16, 24, 32, 64: "ram" is reported as an error exactly for the
\* other values, and with every other field valid the body passes validation
\* exactly for the listed ones.
C5_Theorem ==
    \A r \in Req :
        (Done(r) /\ req[r].via = "router" /\ "ram" \in DOMAIN req[r].body)
        => LET ram == req[r].body["ram"]
               listed == ram \in {2, 4, 6, 8, 12, 16, 24, 32, 64}
           IN  /\ ~listed => req[r].outcome = "http422" /\ "ram" \in req[r].errors
               /\ listed => "ram" \notin req[r].errors
               /\ (listed /\ req[r].body = [Example EXCEPT !.ram = ram])
                  => req[r].outcome # "http422"

C5_Witness ==
    \E r \in Req :
        /\ Done(r)
        /\ "ram" \in DOMAIN req[r].body
        /\ req[r].body["ram"] = 5
        /\ req[r].outcome = "http422"
        /\ req[r].errors = {"ram"}

C5_AcceptWitness ==
    \E r \in Req :
        /\ Done(r)
        /\ req[r].body = [Example EXCEPT !.ram = 64]
        /\ req[r].outcome # "http422"

Omitted(r) == Fields \ DOMAIN req[r].body

\* C6 as claimed: only touchscreen and ips are defaulted (to 0) when omitted; a
\* body that omits any other field is rejected with a validation error.
C6_Claim ==
    \A r \in Req :
        (Done(r) /\ req[r].via = "router")
        => /\ Omitted(r) \ {"touchscreen", "ips"} # {}
              => /\ req[r].outcome = "http422"
                 /\ Omitted(r) \ {"touchscreen", "ips"} \subseteq req[r].errors
           /\ \A f \in Omitted(r) \cap {"touchscreen", "ips"} :
                 /\ f \notin req[r].errors
                 /\ req[r].outcome # "http422" => req[r].features[f] = 0

\* C6 as amended: touchscreen, ips, hdd and ssd are defaulted (to 0) when
\* omitted; a body that omits any other field (company, type, RAM, weight, pixel
\* density, CPU, GPU, OS) is rejected with a validation error.
C6_Theorem ==
    \A r \in Req :
        (Done(r) /\ req[r].via = "router")
        => /\ Omitted(r) \ {"touchscreen", "ips", "hdd", "ssd"} # {}
              => /\ req[r].outcome = "http422"
                 /\ Omitted(r) \ {"touchscreen", "ips", "hdd", "ssd"} \subseteq req[r].errors
           /\ \A f \in Omitted(r) \cap {"touchscreen", "ips", "hdd", "ssd"} :
                 /\ f \notin req[r].errors
                 /\ req[r].outcome # "http422" => req[r].features[f] = 0

C6_Witness ==
    \E r \in Req :
        /\ Done(r)
        /\ Omitted(r) = {"hdd"}
        /\ req[r].outcome # "http422"
        /\ req[r].features["hdd"] = 0

C6_RequiredWitness ==
    \E r \in Req : Done(r) /\ Omitted(r) = {"os"} /\ req[r].outcome = "http422"

\* C7: for every raw model output (negative, zero, small, very large), the
\* model-layer correction returns a value in [1000, 500000] and the
\* service-layer correction returns a value in [10000, 500000], on the raw value
\* and on the model layer's output alike.
C7_Theorem ==
    /\ norm.stage # "raw"
       => /\ norm.model >= 1000 * Unit
          /\ norm.model <= 500000 * Unit
          /\ norm.service >= 10000 * Unit
          /\ norm.service <= 500000 * Unit
    /\ norm.stage = "pipeline"
       => /\ norm.pipeline >= 10000 * Unit
          /\ norm.pipeline <= 500000 * Unit

C7_Witness ==
    /\ norm.stage = "pipeline"
    /\ norm.raw < 0
    /\ norm.model = 1000 * Unit
    /\ norm.pipeline = 100000 * Unit

\* The last set of lastOp.key since the last clear, None when there is none
LastWrite == written[lastOp.key]
Age == lastOp.at - LastWrite.at

\* C8: a get(k) made before the TTL has elapsed since the last set(k, v), with no
\* set(k, .) or clear() in between, returns v.
C8_Theorem ==
    (lastOp.op = "get" /\ LastWrite # None /\ Age < TTL)
    => lastOp.ret = LastWrite.value

C8_Witness ==
    /\ lastOp.op = "get"
    /\ LastWrite # None
    /\ Age > 0
    /\ Age < TTL
    /\ lastOp.ret = LastWrite.value

C9_State ==
    (lastOp.op = "get" /\ LastWrite # None)
    => /\ Age < TTL
          => /\ lastOp.ret = LastWrite.value
             /\ lastOp.key \in DOMAIN cache
             /\ cache[lastOp.key] = <<LastWrite.value, LastWrite.at>>
       /\ Age >= TTL
          => /\ lastOp.ret = None
             /\ lastOp.key \notin DOMAIN cache

\* C9: expiry is measured from insertion.  A get returns the entry exactly while
\* now - t < TTL, t being the time of the set that stored it, however many gets
\* hit it in between, and leaves it in the store untouched; a get at or after
\* t + TTL misses and removes the entry; and time passing removes nothing.
C9_Theorem ==
    /\ []C9_State
    /\ [][now' # now => cache' = cache]_vars

C9_Witness ==
    /\ lastOp.op = "get"
    /\ LastWrite # None
    /\ Age = TTL
    /\ lastOp.ret = None
    /\ lastOp.key \notin DOMAIN cache

\* A step that is a set on the cache
SetStep ==
    /\ lastOp'.op = "set"
    /\ <<lastOp, written, cache>>' # <<lastOp, written, cache>>

\* C10: set(k, v2) replaces whatever k held, fresh or stale: afterwards k holds
\* v2 stamped with the time of this set, every other key holds what it held, and
\* a following get(k) returns v2 exactly while less than TTL has passed since
\* this set.
C10_Theorem ==
    /\ [][SetStep =>
            LET k == lastOp'.key
            IN  /\ DOMAIN cache' = DOMAIN cache \cup {k}
                /\ cache'[k] = <<written'[k].value, now>>
                /\ \A j \in DOMAIN cache \ {k} : cache'[j] = cache[j]]_vars
    /\ [](lastOp.op = "get" /\ LastWrite # None
           => (lastOp.ret = LastWrite.value <=> Age < TTL))

C10_Witness ==
    /\ lastOp.op = "set"
    /\ lastOp.prev # None
    /\ lastOp.prev # LastWrite.value
    /\ lastOp.at = TTL
    /\ cache[lastOp.key] = <<LastWrite.value, TTL>>
    /\ \E j \in DOMAIN cache : j # lastOp.key /\ cache[j][2] = 0

\* C11: after clear() (DELETE /cache) the store is empty whatever it held, so a
\* get of any key misses until that key is set again; clearing an empty cache
\* changes nothing; and a predict_price whose lookup misses in this way submits
\* a fresh inference, and returns a result only after that inference has run.
C11_Theorem ==
    /\ [](lastOp.op = "clear" => cache = EmptyCache)
    /\ []((lastOp.op = "get" /\ LastWrite = None) => lastOp.ret = None)
    /\ [][(lastOp'.op = "clear" /\ lastOp' # lastOp /\ cache = EmptyCache)
            => cache' = cache]_vars
    /\ [][\A r \in Req :
            (/\ req[r].pc = "idle"
             /\ req'[r].pc # "idle"
             /\ req'[r].key # None
             /\ written[req'[r].key] = None)
            => /\ req'[r].pc = "waiting"
               /\ queue' = Append(queue, r)]_vars
    /\ [](\A r \in Req : Computed(r) => "infer" \in Stages(r))

\* A result was computed and cached, the cache was cleared, and a call for the
\* same features, made before any time has passed, missed and awaits a fresh
\* inference
C11_Witness ==
    /\ lastOp.op = "get"
    /\ lastOp.ret = None
    /\ LastWrite = None
    /\ now = 0
    /\ \E r1, r2 \in Req :
          /\ Computed(r1)
          /\ req[r1].key = lastOp.key
          /\ req[r2].pc = "waiting"
          /\ req[r2].features = req[r1].features

\* C12: when the repository insert of the background save fails, the failure
\* stays inside the save: the call that scheduled it has returned its
\* PredictionResult and keeps it, the step changes neither the cache nor any
\* call's outcome nor the collection, and the cached result goes on serving hits.
C12_Theorem ==
    /\ [](\A r \in Req :
            req[r].saved = "failed"
            => /\ Done(r)
               /\ req[r].outcome = "ok"
               /\ req[r].result # None)
    /\ [][\A r \in Req :
            (req[r].saved = "pending" /\ req'[r].saved = "failed")
            => /\ req' = [req EXCEPT ![r].saved = "failed"]
               /\ cache' = cache
               /\ db' = db]_vars

\* The save of one call failed; its result is still cached and another call
\* for the same features was served it
C12_Witness ==
    \E r1, r2 \in Req :
        /\ req[r1].saved = "failed"
        /\ req[r1].key \in DOMAIN cache
        /\ cache[req[r1].key][1] = req[r1].result
        /\ Hit(r2)
        /\ req[r2].result = req[r1].result
        /\ db = <<>>

\* The model's predict raised for call r
InferenceRaised(r) == "infer" \in Stages(r) /\ req[r].fut # None /\ req[r].fut.raised

\* Number of times stage s was run for call r
StageCount(r, s) == Cardinality({i \in 1..Len(req[r].stages) : req[r].stages[i] = s})

\* C13: a call for which the model's predict raised ends in failure (the
\* exception for a direct caller, which the router answers as a 500), the model
\* was invoked once for it and is not invoked again, it wrote nothing to the
\* cache and scheduled no persistence write.
C13_Theorem ==
    /\ [](\A r \in Req :
            InferenceRaised(r)
            => /\ StageCount(r, "infer") = 1
               /\ "cache_set" \notin Stages(r)
               /\ "create_task" \notin Stages(r)
               /\ req[r].result = None
               /\ req[r].saved = "none"
               /\ \A i \in 1..Len(queue) : queue[i] # r
               /\ \A i \in 1..Len(tasks) : tasks[i].r # r
               /\ Done(r) => req[r].outcome = Failure(req[r].via))
    /\ [][\A r \in Req :
            (InferenceRaised(r) /\ ~Done(r) /\ req'[r] # req[r])
            => /\ Done(r)'
               /\ cache' = cache
               /\ tasks' = tasks
               /\ db' = db]_vars

\* A call whose inference raised has failed, and left the cache without an
\* entry for its key
C13_Witness ==
    \E r \in Req :
        /\ InferenceRaised(r)
        /\ Done(r)
        /\ req[r].outcome = "raised"
        /\ req[r].key \notin DOMAIN cache
        /\ tasks = <<>>

\* The model file or the data file is missing or cannot be unpickled
BadFiles == files.model # "ok" \/ files.data # "ok"

\* The load_model calls made so far: the one of the lifespan, and one per call
\* the worker took while the model was not loaded
LoadCalls ==
    (IF app = "starting" THEN 0 ELSE 1)
        + Cardinality({r \in Req : req[r].pc # "idle" /\ req[r].key # None
                                   /\ \A i \in 1..Len(queue) : queue[i] # r})

\* C14: with a bad model or data file, load_model raises to its caller: the
\* loader never becomes loaded, the application never serves and its start is
\* aborted, every predict_price call that reaches the model fails without an
\* inference, and each load_model call reads the files at most once (not at all
\* when a file is missing).
C14_Theorem ==
    BadFiles
    => /\ ~loader.is_loaded
       /\ loader = Unloaded
       /\ app \in {"starting", "loading", "aborted"}
       /\ app = "loading" => files.model # "missing" /\ files.data # "missing"
       /\ \A r \in Req :
             /\ req[r].outcome # "ok"
             /\ req[r].result = None
             /\ "infer" \notin Stages(r)
             /\ StageCount(r, "load") <= 1
             /\ (Done(r) /\ req[r].key # None) => req[r].outcome = Failure(req[r].via)
       /\ files.opened <= LoadCalls
       /\ (files.model = "missing" \/ files.data = "missing") => files.opened = 0
       /\ cache = EmptyCache
       /\ db = <<>>

\* The data file is corrupt: the start of the application was aborted after one
\* read, and a predict_price call failed after one more
C14_Witness ==
    /\ files.model = "ok"
    /\ files.data = "corrupt"
    /\ app = "aborted"
    /\ files.opened = 2
    /\ \E r \in Req :
          /\ Done(r)
          /\ req[r].outcome = "raised"
          /\ StageCount(r, "load") = 1

\* A file is missing: the start was aborted and a call failed, nothing was read
C14_MissingWitness ==
    /\ files.model = "missing"
    /\ app = "aborted"
    /\ files.opened = 0
    /\ \E r \in Req : Done(r) /\ req[r].outcome = "raised"

\* Deriving the cache key raised for call r
KeyFailed(r) == req[r].stages = <<"key">> /\ req[r].key = None

\* C15: a failure raised while deriving the cache key does not fail the call: it
\* is treated as a cache miss and the call goes on to inference.
C15_Claim ==
    \A r \in Req :
        KeyFailed(r)
        => /\ req[r].outcome \notin {"http500", "raised"}
           /\ req[r].pc \in {"waiting", "done"}
           /\ Done(r) => req[r].outcome = "ok"

\* Calls r1 and r2 are two calls for the same valid features, neither served
\* from the cache, with the model files good and predict returning for them
SameFeatures(r1, r2) ==
    /\ r1 # r2
    /\ req[r1].pc # "idle"
    /\ req[r2].pc # "idle"
    /\ req[r1].features # None
    /\ req[r1].features = req[r2].features
    /\ ~Hit(r1)
    /\ ~Hit(r2)
    /\ ~BadFiles
    /\ ~files.regressor[req[r1].features].raises

\* C16: calls with identical features that run concurrently all succeed, and
\* each returns the predicted_price that the cache holds for their fingerprint
\* once they have finished.
C16_Claim ==
    \A r1, r2 \in Req :
        (SameFeatures(r1, r2) /\ Done(r1) /\ Done(r2))
        => /\ req[r1].outcome = "ok"
           /\ req[r2].outcome = "ok"
           /\ req[r1].result.predicted_price = req[r2].result.predicted_price
           /\ req[r1].key \in DOMAIN cache
              => cache[req[r1].key][1].predicted_price = req[r1].result.predicted_price

\* The same, for the calls that get past the key derivation
C16_PastKey ==
    \A r1, r2 \in Req :
        (SameFeatures(r1, r2) /\ Done(r1) /\ Done(r2) /\ ~KeyFailed(r1) /\ ~KeyFailed(r2))
        => /\ req[r1].outcome = "ok"
           /\ req[r2].outcome = "ok"
           /\ req[r1].result.predicted_price = req[r2].result.predicted_price
           /\ req[r1].key \in DOMAIN cache
              => cache[req[r1].key][1].predicted_price = req[r1].result.predicted_price

\* C17: the cache and the persisted records have independent lifecycles.  A step
\* that changes the cache (a clear, the eviction of an expired entry by a get, a
\* set) leaves every persisted record as it was, and a step that changes the
\* records (an insert, an update or a delete through the admin router) leaves
\* every cache entry as it was; no admin request touches the cache.
C17_Theorem ==
    /\ [][cache' # cache => db' = db]_vars
    /\ [][db' # db => cache' = cache]_vars
    /\ [][admin' # admin => cache' = cache]_vars
    /\ [][(lastOp' # lastOp /\ lastOp'.op \in {"get", "clear"}) => db' = db]_vars

\* The record of the prediction was deleted through the admin router and its
\* result is still cached
C17_Witness ==
    /\ admin.route = "delete_prediction"
    /\ admin.status = 200
    /\ db = <<>>
    /\ Computed(1)
    /\ req[1].saved = "stored"
    /\ req[1].key \in DOMAIN cache
    /\ cache[req[1].key][1] = req[1].result

\* The record was given another price and the cached result keeps its own
C17_UpdateWitness ==
    /\ admin.route = "update_prediction"
    /\ admin.status = 200
    /\ Len(db) = 1
    /\ db[1].output_prediction = 12345 * Unit
    /\ req[1].key \in DOMAIN cache
    /\ cache[req[1].key][1].predicted_price # db[1].output_prediction

\* The cache was cleared and the record is still stored
C17_ClearWitness ==
    /\ lastOp.op = "clear"
    /\ cache = EmptyCache
    /\ req[1].saved = "stored"
    /\ Len(db) = 1
    /\ db[1].output_prediction = req[1].result.predicted_price

\* The cached result expired and was evicted by a get, and the record is still
\* stored
C17_ExpiryWitness ==
    /\ lastOp.op = "get"
    /\ lastOp.ret = None
    /\ LastWrite # None
    /\ Age >= TTL
    /\ lastOp.key \notin DOMAIN cache
    /\ Len(db) = 1
    /\ db[1].output_prediction = req[1].result.predicted_price

\* C18: a GET of the admin path /price-range is dispatched to the price-range
\* filter; with min_price <= max_price it answers 200 with records whose
\* output_prediction all lie in [min_price, max_price], and with
\* min_price > max_price it answers 400.
C18_Claim ==
    (admin.route # "none"
     /\ admin.request.method = "GET"
     /\ admin.request.path = <<Word("price-range")>>)
    => /\ admin.route = "get_predictions_by_price_range"
       /\ admin.request.query.min_price <= admin.request.query.max_price
          => /\ admin.status = 200
             /\ \A k \in 1..Len(admin.body) :
                   /\ admin.body[k].output_prediction >= admin.request.query.min_price
                   /\ admin.body[k].output_prediction <= admin.request.query.max_price
       /\ admin.request.query.min_price > admin.request.query.max_price
          => admin.status = 400

\* C19: with good files, the model and data files are read once per process
\* under every interleaving of the startup load and predict calls: a call that
\* arrives while a load is in flight starts no second load, and once the loader
\* is loaded no load is started.
C19_Claim ==
    ~BadFiles
    => /\ files.opened <= 1
       /\ loader.is_loaded => files.opened = 1

\* The part that holds: once the loader is loaded, no load is started
C19_AfterReady ==
    [][loader.is_loaded => files'.opened = files.opened]_vars

\* Position of a stage in the pipeline
StageRank(s) ==
    CASE s = "key" -> 1 [] s = "cache_get" -> 2 [] s = "submit" -> 3 [] s = "load" -> 4
      [] s = "infer" -> 5 [] s = "correct" -> 6 [] s = "cache_set" -> 7
      [] s = "create_task" -> 8

\* What the cache holds, fresh, for the key call r derives in this step
FreshAtEntry(r) == SimpleCache_get(cache, req'[r].key, now).ret

\* C20: within one call the stages run in pipeline order: the key is derived and
\* the cache looked up before anything else; when the lookup hits, the call
\* returns the cached result in that step, with no inference, correction,
\* cache write or persistence; when it misses, the inference is submitted, and
\* the correction, the cache write and the handing off of the save follow the
\* inference in this order; the save runs only after it was handed off.
C20_Theorem ==
    /\ [](\A r \in Req :
            /\ \A i, j \in 1..Len(req[r].stages) :
                  i < j => StageRank(req[r].stages[i]) < StageRank(req[r].stages[j])
            /\ req[r].stages # <<>> => req[r].stages[1] = "key"
            /\ Len(req[r].stages) >= 2 => req[r].stages[2] = "cache_get"
            /\ Hit(r) => req[r].stages = <<"key", "cache_get">> /\ req[r].saved = "none"
            /\ "correct" \in Stages(r) => "infer" \in Stages(r)
            /\ "create_task" \in Stages(r) => "correct" \in Stages(r)
            /\ req[r].saved # "none" => "create_task" \in Stages(r))
    /\ [][\A r \in Req :
            (req[r].pc = "idle" /\ req'[r].pc # "idle" /\ req'[r].key # None)
            => IF FreshAtEntry(r) # None
               THEN /\ Done(r)'
                    /\ req'[r].result = FreshAtEntry(r)
                    /\ req'[r].stages = <<"key", "cache_get">>
                    /\ UNCHANGED <<queue, tasks, nextId, db>>
               ELSE /\ req'[r].pc = "waiting"
                    /\ queue' = Append(queue, r)]_vars

\* One call missed and ran every stage, another hit and ran the first two
C20_Witness ==
    \E r1, r2 \in Req :
        /\ Computed(r1)
        /\ req[r1].stages = <<"key", "cache_get", "submit", "infer", "correct",
                              "cache_set", "create_task">>
        /\ Hit(r2)
        /\ req[r2].stages = <<"key", "cache_get">>
        /\ req[r2].result = req[r1].result

\* ---------------------------------------------------------------------
\* C21: every predict_price call that completes successfully on a cache
\* miss has stored its PredictionResult in the cache under its fingerprint
\* at the step it returns; a later lookup of that fingerprint within TTL of
\* the store, with no clear in between, returns the stored result, and the
\* identical request it belongs to is a hit with the same price.
C21_Theorem ==
    /\ [][\A r \in Req :
            (~Done(r) /\ Computed(r)')
            => /\ req[r].key \in DOMAIN cache'
               /\ cache'[req[r].key] = <<req'[r].result, now>>]_vars
    /\ [][\A r \in Req :
            (req[r].pc = "idle" /\ req'[r].pc # "idle" /\ req'[r].key # None
               /\ written[req'[r].key] # None
               /\ now - written[req'[r].key].at < TTL)
            => /\ Hit(r)'
               /\ req'[r].result = written[req'[r].key].value
               /\ \E q \in Req \ {r} :
                     /\ Computed(q)
                     /\ req[q].features = req'[r].features
                     /\ req[q].result.predicted_price
                          = req'[r].result.predicted_price]_vars

\* A miss stored its result and an identical later request hit it
C21_Witness ==
    \E r1, r2 \in Req :
        /\ r1 # r2
        /\ Computed(r1)
        /\ Hit(r2)
        /\ req[r2].features = req[r1].features
        /\ req[r2].result.predicted_price = req[r1].result.predicted_price
        /\ req[r1].key \in DOMAIN cache
        /\ cache[req[r1].key][1] = req[r1].result

\* ---------------------------------------------------------------------
\* C22: the repository insert of a cache-miss request starts only after
\* predict_price has returned the PredictionResult to its caller: the step
\* that completes the call leaves the store untouched and the save pending,
\* whatever the state of the store, and the step that runs the save (stored
\* or failed) finds the call already completed and changes nothing of what
\* it returned.
C22_Theorem ==
    /\ [][\A r \in Req :
            (~Done(r) /\ Done(r)')
            => /\ db' = db
               /\ Computed(r)' => /\ req'[r].saved = "pending"
                                  /\ tasks' # <<>>
                                  /\ tasks'[Len(tasks')].r = r]_vars
    /\ [][\A r \in Req :
            (req[r].saved # req'[r].saved /\ req'[r].saved \in {"stored", "failed"})
            => /\ Computed(r)
               /\ req[r].saved = "pending"
               /\ req' = [req EXCEPT ![r].saved = req'[r].saved]
               /\ cache' = cache]_vars
    /\ [][Len(db') > Len(db)
            => /\ tasks # <<>>
               /\ Computed(Head(tasks).r)
               /\ req[Head(tasks).r].result = Head(tasks).response]_vars

\* A call has returned its result while its save has not run yet; the save of
\* another call has already failed
C22_Witness ==
    \E r1, r2 \in Req :
        /\ Computed(r1)
        /\ req[r1].saved = "pending"
        /\ tasks # <<>>
        /\ Head(tasks).r = r1
        /\ Computed(r2)
        /\ req[r2].saved = "failed"
        /\ db = <<>>

\* A save has run after its call returned, and stored the record
C22_StoredWitness ==
    \E r \in Req :
        /\ Computed(r)
        /\ req[r].saved = "stored"
        /\ \E i \in 1..Len(db) : db[i].output_prediction = req[r].result.predicted_price

\* ---------------------------------------------------------------------
\* C23: the pipeline price is the service-layer correction of the model-layer
\* correction of the raw output. Each layer exponentiates a value below 100,
\* then scales a value below its threshold (x1000 below 1000 at the model
\* layer, x100 below 10000 at the service layer), then clamps. The model
\* layer's output is at least 1000, so the service layer never exponentiates
\* it, and a model-layer output in [1000, 10000) reaches the clamp multiplied
\* by 100.
C23_Theorem ==
    /\ norm.stage # "raw"
       => LET e == IF norm.raw < 100 * Unit THEN Exp(norm.raw) ELSE norm.raw
              m == IF e < 1000 * Unit THEN e * 1000 ELSE e
              s == IF e < 10000 * Unit THEN e * 100 ELSE e
          IN  /\ norm.model = Max(1000 * Unit, Min(m, 500000 * Unit))
              /\ norm.service = Max(10000 * Unit, Min(s, 500000 * Unit))
              /\ norm.model >= 100 * Unit
    /\ norm.stage = "pipeline"
       => /\ norm.model < 10000 * Unit
             => norm.pipeline = Min(norm.model * 100, 500000 * Unit)
          /\ norm.model >= 10000 * Unit => norm.pipeline = norm.model

\* A raw output of 1 (a log price): e = 2.718 at the model layer, scaled to
\* 2718, which the service layer multiplies by 100
C23_Witness ==
    /\ norm.stage = "pipeline"
    /\ norm.raw = 1 * Unit
    /\ norm.model = 2718 * Unit
    /\ norm.pipeline = 271800 * Unit

\* A model-layer output of 10000 or more passes the service layer unchanged
C23_PassWitness ==
    /\ norm.stage = "pipeline"
    /\ norm.raw = 11 * Unit
    /\ norm.model = 59874141
    /\ norm.pipeline = norm.model

\* ---------------------------------------------------------------------
\* C24: the cache key is a deterministic function of the FeatureRecord's
\* field values only: every FeatureRecord that reaches the key derivation
\* yields a key, and two with identical field values yield the same key,
\* whatever the order their fields were supplied in.
C24_Claim ==
    \A r1, r2 \in Req :
        (req[r1].pc # "idle" /\ req[r2].pc # "idle"
           /\ req[r1].features # None /\ req[r1].features = req[r2].features)
        => /\ req[r1].key # None
           /\ req[r1].key = req[r2].key

\* What holds of C24: for objects that have model(), equal field values give
\* equal keys whatever the order of the dict
C24_WithModel ==
    \A r1, r2 \in Req :
        (req[r1].via = "direct" /\ req[r2].via = "direct"
           /\ req[r1].features = req[r2].features)
        => /\ req[r1].key # None
           /\ req[r1].key = req[r2].key

C24_OrderWitness ==
    \E r1, r2 \in Req :
        /\ req[r1].via = "direct" /\ req[r2].via = "direct"
        /\ req[r1].features = req[r2].features
        /\ req[r1].body # req[r2].body
        /\ req[r1].key = req[r2].key
        /\ req[r1].key # None

\* The worker finished the inference of call r after r was cancelled
FinishedAfterCancel(r) ==
    /\ req[r].outcome = "cancelled"
    /\ req[r].fut # None
    /\ ~req[r].fut.raised

\* ---------------------------------------------------------------------
\* C25: if a request is cancelled while its inference is in flight in the
\* worker, the inference runs to completion and its result is stored in the
\* cache under the request's fingerprint.
C25_Claim ==
    \A r \in Req :
        FinishedAfterCancel(r)
        => /\ req[r].key \in DOMAIN cache
           /\ cache[req[r].key][1].predicted_price
                = apply_price_correction(req[r].fut.value)

\* What holds of C25: cancelling a call leaves the worker as it is, so an
\* inference it has started runs to its end; the cancelled call stores
\* nothing, creates no save task and returns no result.
C25_RunsOn ==
    /\ [][\A r \in Req :
            (req[r].outcome # "cancelled" /\ req'[r].outcome = "cancelled")
            => /\ req[r].pc = "waiting"
               /\ UNCHANGED <<worker, cache, tasks, db>>]_vars
    /\ [](\A r \in Req :
            req[r].outcome = "cancelled"
            => /\ req[r].result = None
               /\ req[r].saved = "none"
               /\ "cache_set" \notin Stages(r))

\* A call was cancelled while the worker ran its inference, the inference
\* finished, and the cache holds nothing
C25_Witness ==
    \E r \in Req :
        /\ FinishedAfterCancel(r)
        /\ "infer" \in Stages(r)
        /\ worker = IdleWorker
        /\ cache = EmptyCache

\* ---------------------------------------------------------------------
\* C26: the loaded model is read-only after loading: once is_loaded is true,
\* no step of any load_model, predict or request assigns or changes the
\* model and data references.
C26_Claim == [][loader.is_loaded => loader' = loader]_vars

\* What holds of C26: predictions and requests never touch the loader, and a
\* load that starts once is_loaded is true assigns nothing; the references
\* are assigned again only by a load that was already in flight when another
\* load completed.
C26_OnlyOverlap ==
    [][(loader.is_loaded /\ loader' # loader)
         => /\ files.opened >= 2
            /\ worker.pc = "loading" \/ app = "loading"
            /\ loader'.is_loaded
            /\ loader'.model = loader.model
            /\ loader'.df = loader.df
            /\ loader'.assigned = loader.assigned + 1]_vars

\* The references were assigned twice
C26_Witness == loader.is_loaded /\ loader.assigned = 2

\* ---------------------------------------------------------------------
\* C28: in every reachable state of the loader, is_loaded is true only if
\* both the model and the data table are loaded; when either of the two
\* parallel file loads fails, neither reference is assigned and is_loaded
\* stays false, whoever made the load_model call.
C28_Theorem ==
    /\ [](loader.is_loaded => (loader.model # None /\ loader.df # None))
    /\ [](BadFiles => loader = Unloaded)
    /\ []((loader.model = None) <=> (loader.df = None))
    /\ [][((app = "loading" /\ app' = "aborted")
             \/ (worker.pc = "loading" /\ worker'.pc = "idle"))
            => loader' = loader]_vars

\* The model file was read and the data file failed to load: nothing was
\* assigned, at startup and in the worker alike
C28_Witness ==
    /\ files.model = "ok"
    /\ files.data = "corrupt"
    /\ app = "aborted"
    /\ files.opened = 2
    /\ \E r \in Req : "load" \in Stages(r) /\ req[r].fut # None /\ req[r].fut.raised
    /\ loader = Unloaded

\* Both files loaded and both references are set
C28_LoadedWitness ==
    /\ loader.is_loaded
    /\ loader.model = files.regressor
    /\ loader.df # None
    /\ files.opened = 1

\* ---------------------------------------------------------------------
\* C27: under any interleaving of the get, set and clear calls of concurrent
\* in-flight requests, every cache operation takes effect atomically: no get
\* raises because the key it found was removed before it read or deleted it,
\* no other call takes effect while a get is between two of its statements,
\* every hit returns the value that a set stored under that same key, and a
\* get that returns has done to the cache, in its last step, what one
\* indivisible get would have done.
C27_Theorem ==
    /\ [](getting.pc # "raised")
    /\ [](getting.pc # "idle"
            => /\ getting.key \in DOMAIN cache
               /\ getting.pc \in {"test", "del"}
                  => cache[getting.key] = <<getting.value, getting.timestamp>>)
    /\ []((lastOp.op = "get" /\ lastOp.ret # None)
            => /\ written[lastOp.key] # None
               /\ lastOp.ret = written[lastOp.key].value)
    /\ [][getting.pc # "idle"
            => (cache' = cache \/ (getting.pc = "del" /\ getting'.pc = "idle"))]_vars
    /\ [][(lastOp' # lastOp /\ lastOp'.op = "get")
            => /\ lastOp'.ret = SimpleCache_get(cache, lastOp'.key, now).ret
               /\ cache' = SimpleCache_get(cache, lastOp'.key, now).cache]_vars

\* A get found its key expired and is about to delete it, after other keys
\* were set
C27_Witness ==
    /\ getting.pc = "del"
    /\ getting.key \in DOMAIN cache
    /\ now - cache[getting.key][2] >= TTL
    /\ Cardinality(DOMAIN cache) = 2

\* A get returned the value stored under its key
C27_HitWitness ==
    /\ getting.pc = "idle"
    /\ lastOp.op = "get"
    /\ lastOp.ret # None
    /\ lastOp.ret = cache[lastOp.key][1]

C29_SameHash ==
    \A r \in Req :
        (Done(r) /\ req[r].outcome = "ok")
        => /\ Computed(r) => req[r].result.features = req[r].features
           /\ create_cache_key(WithModelMethod(req[r].result.features)).key = req[r].key

\* A call was answered with the result computed for other features
C29_Witness ==
    \E r1, r2 \in Req :
        /\ Computed(r1)
        /\ Hit(r2)
        /\ req[r1].features = MinusOne
        /\ req[r2].features = MinusTwo
        /\ req[r2].result = req[r1].result

\* Call r has submitted an inference to the executor
Submitted(r) == "submit" \in Stages(r)

\* The executor has started the job of call r
Started(r) == Submitted(r) /\ (worker.r = r \/ req[r].fut # None)

\* ---------------------------------------------------------------------
\* C30: at most one inference submitted by the prediction service is
\* executing at any time: the single worker runs the job of one call, calls
\* that submitted meanwhile wait in the queue, and the jobs are started one
\* after another in submission order, each only once the one before it has
\* finished.
C30_Theorem ==
    /\ [](\A r \in Req :
            /\ worker.pc # "idle" => worker.r \in Req /\ Submitted(worker.r)
            /\ (worker.pc # "idle" /\ worker.r = r)
               => /\ req[r].fut = None
                  /\ \A i \in 1..Len(queue) : queue[i] # r)
    /\ [](\A i, j \in 1..Len(queue) : i < j => queue[i] < queue[j])
    /\ [](\A r1, r2 \in Req :
            (r1 < r2 /\ Submitted(r1) /\ Started(r2) /\ req[r1].outcome # "cancelled")
            => req[r1].fut # None)
    /\ [][worker'.r # worker.r /\ worker'.pc # "idle"
            => /\ worker.pc = "idle"
               /\ queue # <<>>
               /\ worker'.r = Head(queue)
               /\ queue' = Tail(queue)]_vars
    /\ [][\A r \in Req :
            ("infer" \notin Stages(r) /\ "infer" \in Stages(r)')
            => worker.pc = "predicting" /\ worker.r = r /\ worker'.pc = "idle"]_vars

\* The worker runs the inference of the first call while the second, which
\* missed the cache too, waits in the queue
C30_Witness ==
    /\ worker.pc = "predicting"
    /\ worker.r = 1
    /\ queue = <<2>>
    /\ req[1].pc = "waiting"
    /\ req[2].pc = "waiting"

\* Both inferences ran, one after the other
C30_BothWitness ==
    /\ worker = IdleWorker
    /\ "infer" \in Stages(1)
    /\ "infer" \in Stages(2)

===========================================================================
